---- MODULE Spec2Model ----
(***************************************************************************)
(* Persistent Context Engine (pce): the memory pipeline.                   *)
(*   compression.py  _tokenize, extract_keywords, compress_text,           *)
(*                   compress_frame                                        *)
(*   api.py          the rule-based extractors, save_context, load_context,*)
(*                   summarize                                             *)
(*   storage.py      write_frame, load_all, _prune_if_needed               *)
(*   retrieval.py    _score_frame, retrieve_relevant_frames,               *)
(*                   reconstruct_state                                     *)
(*                                                                         *)
(* A Python str is a sequence of one-character strings, so that slicing,   *)
(* searching, splitting and truncation are computed character by character *)
(* as the code computes them.                                              *)
(***************************************************************************)
EXTENDS Integers, Sequences, FiniteSets, TLC

VARIABLES
    log,            \* memory/context.jsonl: the sequence of lines of the file
    now,            \* the wall clock read by datetime.utcnow(), in seconds
    result,         \* what the last API call returned (or that it raised)
    written,        \* history: every frame handed to write_frame, in order
    saves,          \* number of save_context calls made in this run
    text,           \* compress_text: the input text
    budget,         \* compress_text: max_chars
    out1,           \* compress_text(text, budget)
    out2,           \* compress_text(out1, budget)
    cphase,         \* which of the above have been computed
    texts,          \* extract_keywords: the input texts
    max_keywords,   \* extract_keywords: max_keywords
    kw,             \* extract_keywords(texts, max_keywords)
    kw_perm,        \* extract_keywords(a permutation of texts, max_keywords)
    kphase          \* which of the above have been computed

storeVars == <<log, now, result, written, saves>>
textVars == <<text, budget, out1, out2, cphase>>
kwVars == <<texts, max_keywords, kw, kw_perm, kphase>>
vars == <<log, now, result, written, saves, text, budget, out1, out2, cphase,
          texts, max_keywords, kw, kw_perm, kphase>>

(***************************************************************************)
(* Bounds of the model.                                                    *)
(***************************************************************************)
\* compress_text is checked on every text of at most MaxLen characters ...
MaxLen == 5
\* ... and every budget 0..MaxBudget.
MaxBudget == 6
\* extract_keywords is checked on every list of texts of at most MaxKwChars
\* characters in all (separators between the texts included) ...
MaxKwChars == 4
\* ... holding at most MaxTexts texts, for every max_keywords 0..MaxKeywords.
MaxTexts == 3
MaxKeywords == 2
\* a run saves at most MaxSaves frames;
MaxSaves == 2
\* the log holds 0, SmallBacklog or LargeBacklog frames when the run starts.
SmallBacklog == 11
LargeBacklog == 19
\* the long run of SpecRetention makes at most MaxAppends saves.
MaxAppends == 305
\* SpecDamage: the number of saves, and of lines damaged
MaxDamageSaves == 3
MaxDamaged == 2
\* SpecCrash: the number of write_frame calls, and how many lines over
\* MAX_FRAMES crashed calls may leave the log
MaxCrashWrites == 4
MaxOverCap == 2

(***************************************************************************)
(* Characters and the str methods the code uses.                           *)
(***************************************************************************)
Min(a, b) == IF a <= b THEN a ELSE b
Range(s) == {s[i] : i \in 1..Len(s)}
Take(s, n) == SubSeq(s, 1, Min(n, Len(s)))
Drop(s, n) == SubSeq(s, n + 1, Len(s))
SetMax(S) == CHOOSE x \in S : \A y \in S : y <= x
SetMin(S) == CHOOSE x \in S : \A y \in S : x <= y
\* the elements of a finite set of integers, ascending
SortedSeq(S) ==
    [k \in 1..Cardinality(S) |->
        CHOOSE x \in S : Cardinality({y \in S : y < x}) = k - 1]
\* The order sorted() and list.sort() put n entries in, which are stable:
\* before[i][j] says that entry i sorts strictly before entry j; the entry
\* at place i goes after the entries that sort before it and after those of
\* an equal key that stand before it.  The k-th of the result is the place
\* of the entry that comes k-th.
StableOrder(n, before) ==
    [k \in 1..n |->
        CHOOSE i \in 1..n :
            Cardinality({j \in 1..n :
                            \/ before[j][i]
                            \/ ~before[i][j] /\ j < i}) = k - 1]
\* the maximal runs of characters of t that are in chars (inside) or not in
\* chars (~inside), in order
Runs(t, chars, inside) ==
    LET starts == SortedSeq({i \in 1..Len(t) :
                                /\ (t[i] \in chars) = inside
                                /\ i = 1 \/ (t[i - 1] \in chars) # inside})
        RunEnd(i) == CHOOSE j \in i..Len(t) :
                        /\ \A n \in i..j : (t[n] \in chars) = inside
                        /\ j = Len(t) \/ (t[j + 1] \in chars) # inside
    IN [k \in 1..Len(starts) |-> SubSeq(t, starts[k], RunEnd(starts[k]))]
\* the pieces of t between its characters that are in seps, empty pieces
\* included
Pieces(t, seps) ==
    LET at == SortedSeq({i \in 1..Len(t) : t[i] \in seps})
    IN [k \in 1..(Len(at) + 1) |->
           SubSeq(t, IF k = 1 THEN 1 ELSE at[k - 1] + 1,
                     IF k = Len(at) + 1 THEN Len(t) ELSE at[k] - 1)]

Upper == <<"A", "B", "C", "D", "E", "F", "G", "H", "I", "J", "K", "L", "M",
           "N", "O", "P", "Q", "R", "S", "T", "U", "V", "W", "X", "Y", "Z">>
Lowers == <<"a", "b", "c", "d", "e", "f", "g", "h", "i", "j", "k", "l", "m",
            "n", "o", "p", "q", "r", "s", "t", "u", "v", "w", "x", "y", "z">>
Digits == <<"0", "1", "2", "3", "4", "5", "6", "7", "8", "9">>
UpperSet == Range(Upper)
LowerSet == Range(Lowers)
DigitSet == Range(Digits)

\* The printable ASCII characters in code-point order, " " (32) first; the
\* double quote (34), the backslash (92) and the backtick (96) hold their
\* places under a name.
AsciiPrintable ==
    <<" ", "!", "DQUOTE", "#", "$", "%", "&", "'", "(", ")", "*", "+", ",", "-",
      ".", "/">> \o Digits \o <<":", ";", "<", "=", ">", "?", "@">> \o Upper
    \o <<"[", "BACKSLASH", "]", "^", "_", "BACKTICK">> \o Lowers \o <<"{", "|", "}", "~">>
OrdMap ==
    [c \in Range(AsciiPrintable) |->
        31 + (CHOOSE i \in 1..Len(AsciiPrintable) : AsciiPrintable[i] = c)]
\* ord(c): the code point, which is what str comparison compares.
ord(c) == IF c = "\n" THEN 10 ELSE IF c = "\t" THEN 9 ELSE OrdMap[c]

LowerMap == [c \in UpperSet |-> Lowers[CHOOSE i \in 1..26 : Upper[i] = c]]
lower_char(c) == IF c \in UpperSet THEN LowerMap[c] ELSE c
\* str.lower()
str_lower(t) == [i \in 1..Len(t) |-> lower_char(t[i])]

\* \w of the re module
IsWordChar(c) == c \in LowerSet \cup UpperSet \cup DigitSet \cup {"_"}

lstrip_chars(t, cs) ==
    LET S == {i \in 1..Len(t) : t[i] \notin cs}
    IN IF S = {} THEN <<>> ELSE SubSeq(t, SetMin(S), Len(t))
rstrip_chars(t, cs) ==
    LET S == {i \in 1..Len(t) : t[i] \notin cs}
    IN IF S = {} THEN <<>> ELSE SubSeq(t, 1, SetMax(S))
\* the characters str.isspace() holds of, among those of the model's texts
Whitespace == {" ", "\n", "\t"}
\* str.strip(chars), str.strip(), str.rstrip()
strip_chars(t, cs) == lstrip_chars(rstrip_chars(t, cs), cs)
strip(t) == strip_chars(t, Whitespace)
rstrip(t) == rstrip_chars(t, Whitespace)

\* str.split(): split on runs of whitespace, no empty strings
str_split(t) == Runs(t, Whitespace, FALSE)

\* sep.join(parts)
RECURSIVE str_join(_, _)
str_join(sep, parts) ==
    IF Len(parts) = 0 THEN <<>>
    ELSE IF Len(parts) = 1 THEN parts[1]
    ELSE parts[1] \o sep \o str_join(sep, Tail(parts))

\* s.rfind(ch, lo, hi): the highest 0-based index in [lo, hi) holding ch, or -1
str_rfind(t, ch, lo, hi) ==
    LET S == {i \in lo..(Min(hi, Len(t)) - 1) : t[i + 1] = ch}
    IN IF S = {} THEN -1 ELSE SetMax(S)

\* whether sub occurs in t at 1-based position i
OccursAt(t, sub, i) ==
    /\ i >= 1
    /\ i + Len(sub) - 1 <= Len(t)
    /\ \A j \in 1..Len(sub) : t[i + j - 1] = sub[j]
\* sub in t
str_contains(t, sub) == \E i \in 1..(Len(t) - Len(sub) + 1) : OccursAt(t, sub, i)
\* t.startswith(prefix)
str_startswith(t, prefix) == OccursAt(t, prefix, 1)
\* t.find(sub): 1-based position of the first occurrence, 0 if none
str_find(t, sub) ==
    LET S == {i \in 1..(Len(t) - Len(sub) + 1) : OccursAt(t, sub, i)}
    IN IF S = {} THEN 0 ELSE CHOOSE i \in S : \A j \in S : i <= j

\* a < b of two str: lexicographic by code point
RECURSIVE str_lt(_, _)
str_lt(a, b) ==
    IF Len(b) = 0 THEN FALSE
    ELSE IF Len(a) = 0 THEN TRUE
    ELSE IF a[1] = b[1] THEN str_lt(Tail(a), Tail(b))
    ELSE ord(a[1]) < ord(b[1])

(***************************************************************************)
(* compression.py: _tokenize and extract_keywords                          *)
(***************************************************************************)
S_the == <<"t", "h", "e">>
S_and == <<"a", "n", "d">>
S_a == <<"a">>
S_an == <<"a", "n">>
S_of == <<"o", "f">>
S_to == <<"t", "o">>
S_in == <<"i", "n">>
S_for == <<"f", "o", "r">>
S_on == <<"o", "n">>
S_at == <<"a", "t">>
S_is == <<"i", "s">>
S_are == <<"a", "r", "e">>
S_was == <<"w", "a", "s">>
S_were == <<"w", "e", "r", "e">>
S_be == <<"b", "e">>
S_been == <<"b", "e", "e", "n">>
S_with == <<"w", "i", "t", "h">>
S_as == <<"a", "s">>
S_by == <<"b", "y">>
S_or == <<"o", "r">>
S_if == <<"i", "f">>
S_then == <<"t", "h", "e", "n">>
S_so == <<"s", "o">>
S_we == <<"w", "e">>
S_i == <<"i">>
S_you == <<"y", "o", "u">>
S_it == <<"i", "t">>
S_that == <<"t", "h", "a", "t">>
S_this == <<"t", "h", "i", "s">>
S_but == <<"b", "u", "t">>
S_from == <<"f", "r", "o", "m">>
S_our == <<"o", "u", "r">>
S_their == <<"t", "h", "e", "i", "r">>
S_they == <<"t", "h", "e", "y">>
S_them == <<"t", "h", "e", "m">>
S_my == <<"m", "y">>
S_your == <<"y", "o", "u", "r">>
_STOPWORDS ==
    {S_the, S_and, S_a, S_an, S_of, S_to, S_in, S_for, S_on, S_at,
     S_is, S_are, S_was, S_were, S_be, S_been, S_with, S_as, S_by,
     S_or, S_if, S_then, S_so, S_we, S_i, S_you, S_it, S_that, S_this,
     S_but, S_from, S_our, S_their, S_they, S_them, S_my, S_your}

\* [a-z0-9_]: what the split pattern [^a-z0-9_]+ does not split on
TokenChars == LowerSet \cup DigitSet \cup {"_"}

\* re.split(r"[^a-z0-9_]+", text) with the empty strings dropped
_tokenize(t) == Runs(str_lower(t), TokenChars, TRUE)

\* counter[tok] += 1 on a Counter, which keeps its keys in insertion order:
\* a sequence of [tok, n]
RECURSIVE counter_incr(_, _)
counter_incr(counter, tok) ==
    IF Len(counter) = 0 THEN <<[tok |-> tok, n |-> 1]>>
    ELSE IF counter[1].tok = tok
         THEN <<[tok |-> tok, n |-> counter[1].n + 1]>> \o Tail(counter)
         ELSE <<counter[1]>> \o counter_incr(Tail(counter), tok)

\* the inner loop: for tok in _tokenize(text)
RECURSIVE count_tokens(_, _, _)
count_tokens(toks, i, counter) ==
    IF i > Len(toks) THEN counter
    ELSE IF toks[i] \in _STOPWORDS THEN count_tokens(toks, i + 1, counter)
    ELSE count_tokens(toks, i + 1, counter_incr(counter, toks[i]))

\* the outer loop: for text in texts
RECURSIVE count_texts(_, _, _)
count_texts(ts, k, counter) ==
    IF k > Len(ts) THEN counter
    ELSE count_texts(ts, k + 1, count_tokens(_tokenize(ts[k]), 1, counter))

\* a mutant of item_less: the frequency alone orders the items
item_less_by_freq(x, y) == x.n > y.n

\* the sort key (-kv[1], kv[0]): x sorts strictly before y
item_less(x, y) == x.n > y.n \/ (x.n = y.n /\ str_lt(x.tok, y.tok))

\* sorted(counter.items(), key)
sorted_items(counter) ==
    LET order == StableOrder(Len(counter),
                     [i \in 1..Len(counter) |-> [j \in 1..Len(counter) |->
                         item_less(counter[i], counter[j])]])
    IN [k \in 1..Len(counter) |-> counter[order[k]]]

extract_keywords(ts, maxk) ==
    LET counter == count_texts(ts, 1, <<>>)
    IN IF Len(counter) = 0 THEN <<>>
       ELSE LET items == sorted_items(counter)
            IN [i \in 1..Min(maxk, Len(items)) |-> items[i].tok]

(***************************************************************************)
(* compression.py: compress_text                                           *)
(***************************************************************************)
SP == <<" ">>
Delims == {".", "!", "?"}

NonEmpty(s) == Len(s) > 0

\* re.split(r"([.!?])", cleaned) and the loop over its parts: the text up to
\* and including a delimiter is a sentence, stripped, kept when not empty;
\* what follows the last delimiter, when not empty, is one more, stripped
split_sentences(cleaned) ==
    LET ends == SortedSeq({i \in 1..Len(cleaned) : cleaned[i] \in Delims})
        last == IF Len(ends) = 0 THEN 0 ELSE ends[Len(ends)]
        closed == [k \in 1..Len(ends) |->
                      strip(SubSeq(cleaned,
                                   IF k = 1 THEN 1 ELSE ends[k - 1] + 1,
                                   ends[k]))]
        current == SubSeq(cleaned, last + 1, Len(cleaned))
    IN SelectSeq(closed, NonEmpty)
       \o (IF Len(current) > 0 THEN <<strip(current)>> ELSE <<>>)

\* a mutant of dedup_sentences: every sentence is kept
dedup_sentences_keep_all(sentences, i, unique) == sentences

\* "Deduplicate sentences while preserving order."
RECURSIVE dedup_sentences(_, _, _)
dedup_sentences(sentences, i, unique) ==
    IF i > Len(sentences) THEN unique
    ELSE IF sentences[i] \in Range(unique)
         THEN dedup_sentences(sentences, i + 1, unique)
         ELSE dedup_sentences(sentences, i + 1, Append(unique, sentences[i]))

\* a mutant of truncate: always the hard cut
truncate_hard(res, max_chars) == Take(res, max_chars)

\* a mutant of truncate: the space at index max_chars itself is also used
truncate_inclusive(res, max_chars) ==
    LET cut == str_rfind(res, " ", 0, max_chars + 1)
    IN IF cut = -1 THEN Take(res, max_chars)
       ELSE rstrip(Take(res, cut))

\* "Truncate at last space before max_chars if possible."
truncate(res, max_chars) ==
    LET cut == str_rfind(res, " ", 0, max_chars)
    IN IF cut = -1 THEN Take(res, max_chars)
       ELSE rstrip(Take(res, cut))

\* " ".join(text.strip().split())
clean(t) == str_join(SP, str_split(strip(t)))

\* the sentences of cleaned, first occurrences only, joined by a space
join_unique(cleaned) ==
    str_join(SP, dedup_sentences(split_sentences(cleaned), 1, <<>>))

\* "if len(result) <= max_chars: return result", else the truncation
fit(res, max_chars) ==
    IF Len(res) <= max_chars THEN res ELSE truncate(res, max_chars)

\* "if not cleaned: return ''", else the sentences
compress_cleaned(cleaned, max_chars) ==
    IF Len(cleaned) = 0 THEN <<>> ELSE fit(join_unique(cleaned), max_chars)

compress_text(t, max_chars) == compress_cleaned(clean(t), max_chars)

\* api.py: _distill_intent, _distill_output
_distill_intent(user_msg) == compress_text(user_msg, 400)
_distill_output(assistant_msg) == compress_text(assistant_msg, 400)

(***************************************************************************)
(* api.py: the rule-based extractors                                       *)
(***************************************************************************)
K_code == <<"c", "o", "d", "e">>
K_api == <<"a", "p", "i">>
K_schema == <<"s", "c", "h", "e", "m", "a">>
K_algorithm == <<"a", "l", "g", "o", "r", "i", "t", "h", "m">>
K_implementation ==
    <<"i", "m", "p", "l", "e", "m", "e", "n", "t", "a", "t", "i", "o", "n">>
K_stack == <<"s", "t", "a", "c", "k">>
K_bug == <<"b", "u", "g">>
K_plan == <<"p", "l", "a", "n">>
K_roadmap == <<"r", "o", "a", "d", "m", "a", "p">>
K_milestone == <<"m", "i", "l", "e", "s", "t", "o", "n", "e">>
K_schedule == <<"s", "c", "h", "e", "d", "u", "l", "e">>
K_timeline == <<"t", "i", "m", "e", "l", "i", "n", "e">>
K_next_steps == <<"n", "e", "x", "t", " ", "s", "t", "e", "p", "s">>
K_think == <<"t", "h", "i", "n", "k">>
K_reflect == <<"r", "e", "f", "l", "e", "c", "t">>
K_meta == <<"m", "e", "t", "a">>
K_why == <<"w", "h", "y">>
K_philosophy == <<"p", "h", "i", "l", "o", "s", "o", "p", "h", "y">>
K_epistemology ==
    <<"e", "p", "i", "s", "t", "e", "m", "o", "l", "o", "g", "y">>
K_tech == <<"t", "e", "c", "h">>
K_general == <<"g", "e", "n", "e", "r", "a", "l">>
K_step_ == <<"s", "t", "e", "p", " ">>
K_1dot == <<"1", ".">>
K_2dot == <<"2", ".">>
K_3dot == <<"3", ".">>
K_first == <<"f", "i", "r", "s", "t">>
K_second == <<"s", "e", "c", "o", "n", "d">>
K_third == <<"t", "h", "i", "r", "d">>
K_project_colon == <<"p", "r", "o", "j", "e", "c", "t", ":">>
K_project_name_colon ==
    <<"p", "r", "o", "j", "e", "c", "t", " ", "n", "a", "m", "e", ":">>
K_currently == <<"c", "u", "r", "r", "e", "n", "t", "l", "y">>
K_right_now == <<"r", "i", "g", "h", "t", " ", "n", "o", "w">>
K_concise == <<"c", "o", "n", "c", "i", "s", "e">>
K_short_answer ==
    <<"s", "h", "o", "r", "t", " ", "a", "n", "s", "w", "e", "r">>
K_detailed == <<"d", "e", "t", "a", "i", "l", "e", "d">>
K_step_by_step ==
    <<"s", "t", "e", "p", "-", "b", "y", "-", "s", "t", "e", "p">>
K_casual == <<"c", "a", "s", "u", "a", "l">>
K_formal == <<"f", "o", "r", "m", "a", "l">>
K_no_code == <<"n", "o", " ", "c", "o", "d", "e">>
K_no_examples == <<"n", "o", " ", "e", "x", "a", "m", "p", "l", "e", "s">>
K_avoid_code ==
    <<"a", "v", "o", "i", "d", " ", "c", "o", "d", "e", " ", "u", "n", "l",
      "e", "s", "s", " ", "r", "e", "q", "u", "e", "s", "t", "e", "d">>
K_avoid_examples ==
    <<"a", "v", "o", "i", "d", " ", "e", "x", "a", "m", "p", "l", "e", "s",
      " ", "u", "n", "l", "e", "s", "s", " ", "r", "e", "q", "u", "e", "s",
      "t", "e", "d">>
K_bar == <<" ", "|", " ">>
K_Continue == <<"C", "o", "n", "t", "i", "n", "u", "e", ":", " ">>
NL == <<"\n">>

\* any(k in text for k in keys)
contains_any(t, keys) == \E k \in keys : str_contains(t, k)

_classify_tags(user_msg, assistant_msg) ==
    LET t == str_lower(user_msg \o SP \o assistant_msg)
        tech == IF contains_any(t, {K_code, K_api, K_schema, K_algorithm,
                                    K_implementation, K_stack, K_bug})
                THEN <<K_tech>> ELSE <<>>
        plan == IF contains_any(t, {K_plan, K_roadmap, K_milestone, K_schedule,
                                    K_timeline, K_next_steps})
                THEN <<K_plan>> ELSE <<>>
        meta == IF contains_any(t, {K_think, K_reflect, K_meta, K_why,
                                    K_philosophy, K_epistemology})
                THEN <<K_meta>> ELSE <<>>
        tags == tech \o plan \o meta
    IN IF Len(tags) = 0 THEN <<K_general>> ELSE tags

_extract_semantic(user_msg, assistant_msg) ==
    [concepts |-> extract_keywords(<<user_msg, assistant_msg>>, 8),
     notes |-> compress_text(assistant_msg, 400)]

\* str.splitlines() on "\n": no empty last line after a final "\n"
str_splitlines(t) ==
    LET pieces == Pieces(t, {"\n"})
    IN IF Len(pieces[Len(pieces)]) = 0
       THEN SubSeq(pieces, 1, Len(pieces) - 1) ELSE pieces

\* the characters of ln.strip("-*• \t") that a text of the model can hold
BulletChars == {"-", "*", " ", "\t"}
WorkflowPrefixes ==
    {K_step_, K_1dot, K_2dot, K_3dot, K_first, K_second, K_third}

RECURSIVE select_workflows(_, _, _)
select_workflows(lines, i, workflows) ==
    IF i > Len(lines) THEN workflows
    ELSE LET ln == strip_chars(lines[i], BulletChars)
             lower == str_lower(ln)
         IN IF \E prefix \in WorkflowPrefixes : str_startswith(lower, prefix)
            THEN select_workflows(lines, i + 1, Append(workflows, ln))
            ELSE select_workflows(lines, i + 1, workflows)

_extract_procedural(user_msg, assistant_msg) ==
    [workflows |-> select_workflows(str_splitlines(user_msg \o NL \o assistant_msg),
                                    1, <<>>),
     checklists |-> <<>>]

\* line.split(sep, 1): one part when sep does not occur in line, else two
str_split1(line, sep) ==
    LET p == str_find(line, sep)
    IN IF p = 0 THEN <<line>>
       ELSE <<SubSeq(line, 1, p - 1), SubSeq(line, p + Len(sep), Len(line))>>

\* line.split(marker, 1)[1].strip(): index 1 of a one-part list raises
\* IndexError
marker_lookup(line, marker) ==
    LET parts == str_split1(line, marker)
    IN IF Len(parts) < 2 THEN [raised |-> TRUE, after |-> <<>>]
       ELSE [raised |-> FALSE, after |-> strip(parts[2])]

\* the loop over text.splitlines(): the project name, or that it raised
RECURSIVE scan_project_name(_, _)
scan_project_name(lines, i) ==
    IF i > Len(lines) THEN [raised |-> FALSE, project_name |-> <<>>]
    ELSE LET line == lines[i]
             lower == str_lower(line)
             first == IF str_contains(lower, K_project_colon)
                      THEN marker_lookup(line, K_project_colon)
                      ELSE [raised |-> FALSE, after |-> <<>>]
             second == IF str_contains(lower, K_project_name_colon)
                       THEN marker_lookup(line, K_project_name_colon)
                       ELSE [raised |-> FALSE, after |-> <<>>]
         IN IF first.raised THEN [raised |-> TRUE, project_name |-> <<>>]
            ELSE IF Len(first.after) > 0
                 THEN [raised |-> FALSE, project_name |-> first.after]
            ELSE IF second.raised THEN [raised |-> TRUE, project_name |-> <<>>]
            ELSE IF Len(second.after) > 0
                 THEN [raised |-> FALSE, project_name |-> second.after]
            ELSE scan_project_name(lines, i + 1)

\* ProjectState(project_name, summary, active_workstream), or that the loop
\* raised
project_state_of(scan, user_msg, summary) ==
    [raised |-> scan.raised,
     value |-> [project_name |-> scan.project_name,
                summary |-> summary,
                active_workstream |->
                    IF \/ str_contains(str_lower(user_msg), K_currently)
                       \/ str_contains(str_lower(user_msg), K_right_now)
                    THEN summary ELSE <<>>,
                pending_tasks |-> <<>>,
                constraints |-> <<>>]]

\* [raised, value]: raised when the loop raised IndexError
_extract_project_state(user_msg, assistant_msg) ==
    project_state_of(
        scan_project_name(str_splitlines(user_msg \o NL \o assistant_msg), 1),
        user_msg, _distill_intent(user_msg))

_extract_preferences(user_msg, assistant_msg) ==
    LET t == str_lower(user_msg \o SP \o assistant_msg)
        style == IF str_contains(t, K_detailed) \/ str_contains(t, K_step_by_step)
                 THEN K_detailed
                 ELSE IF str_contains(t, K_concise) \/ str_contains(t, K_short_answer)
                      THEN K_concise ELSE <<>>
        tone == IF str_contains(t, K_formal) THEN K_formal
                ELSE IF str_contains(t, K_casual) THEN K_casual ELSE <<>>
        constraints ==
            (IF str_contains(t, K_no_code) THEN <<K_avoid_code>> ELSE <<>>)
            \o (IF str_contains(t, K_no_examples) THEN <<K_avoid_examples>>
                ELSE <<>>)
    IN [style |-> style, tone |-> tone, constraints |-> constraints,
        other |-> <<>>]

(***************************************************************************)
(* compression.py: compress_frame                                          *)
(***************************************************************************)
\* dedup_list, and the loop over frame.tags with norm = strip().lower():
\* the normalised values, without the empty and the repeated ones
RECURSIVE dedup_norm(_, _, _, _)
dedup_norm(values, i, acc, lowercase) ==
    IF i > Len(values) THEN acc
    ELSE LET vv == IF lowercase THEN str_lower(strip(values[i]))
                   ELSE strip(values[i])
         IN IF Len(vv) = 0 \/ vv \in Range(acc)
            THEN dedup_norm(values, i + 1, acc, lowercase)
            ELSE dedup_norm(values, i + 1, Append(acc, vv), lowercase)
dedup_list(values) == dedup_norm(values, 1, <<>>, FALSE)

\* sorted(deduped_tags)
sorted_strs(strs) ==
    LET order == StableOrder(Len(strs),
                     [i \in 1..Len(strs) |-> [j \in 1..Len(strs) |->
                         str_lt(strs[i], strs[j])]])
    IN [k \in 1..Len(strs) |-> strs[order[k]]]

\* the RecapFrame compress_frame returns, given the four compressed texts
compressed_frame(frame, intent, output, raw_user, raw_assistant) ==
       [timestamp |-> frame.timestamp,
        key_topics |-> extract_keywords(
            <<intent, output, frame.semantic.notes,
              frame.project_state.summary, raw_user, raw_assistant>>, 12),
        distilled_user_intent |-> intent,
        distilled_system_output |-> output,
        tags |-> sorted_strs(dedup_norm(frame.tags, 1, <<>>, TRUE)),
        semantic |-> [concepts |-> dedup_list(frame.semantic.concepts),
                      notes |-> frame.semantic.notes],
        procedural |-> [workflows |-> dedup_list(frame.procedural.workflows),
                        checklists |-> dedup_list(frame.procedural.checklists)],
        project_state |->
            [project_name |-> frame.project_state.project_name,
             summary |-> frame.project_state.summary,
             active_workstream |-> frame.project_state.active_workstream,
             pending_tasks |-> dedup_list(frame.project_state.pending_tasks),
             constraints |-> dedup_list(frame.project_state.constraints)],
        preferences |->
            [style |-> frame.preferences.style,
             tone |-> frame.preferences.tone,
             constraints |-> dedup_list(frame.preferences.constraints),
             other |-> frame.preferences.other],
        raw_user_message |-> raw_user,
        raw_assistant_message |-> raw_assistant]

compress_frame(frame) ==
    compressed_frame(frame,
                     compress_text(frame.distilled_user_intent, 600),
                     compress_text(frame.distilled_system_output, 600),
                     compress_text(frame.raw_user_message, 600),
                     compress_text(frame.raw_assistant_message, 600))

(***************************************************************************)
(* api.py: the frame save_context builds                                   *)
(***************************************************************************)
\* the RecapFrame save_context constructs
new_frame(raw_user_msg, raw_assistant_msg, timestamp, semantic, project_state) ==
    [timestamp |-> timestamp,
     key_topics |-> extract_keywords(
         <<raw_user_msg, raw_assistant_msg, semantic.notes,
           project_state.summary>>, 12),
     distilled_user_intent |-> _distill_intent(raw_user_msg),
     distilled_system_output |-> _distill_output(raw_assistant_msg),
     tags |-> _classify_tags(raw_user_msg, raw_assistant_msg),
     semantic |-> semantic,
     procedural |-> _extract_procedural(raw_user_msg, raw_assistant_msg),
     project_state |-> project_state,
     preferences |-> _extract_preferences(raw_user_msg, raw_assistant_msg),
     raw_user_message |-> raw_user_msg,
     raw_assistant_message |-> raw_assistant_msg]

\* what follows _extract_project_state in save_context
build_after(raw_user_msg, raw_assistant_msg, timestamp, project_state) ==
    IF project_state.raised THEN [raised |-> TRUE, frame |-> <<>>]
    ELSE [raised |-> FALSE,
          frame |-> compress_frame(
              new_frame(raw_user_msg, raw_assistant_msg, timestamp,
                        _extract_semantic(raw_user_msg, raw_assistant_msg),
                        project_state.value))]

\* [raised, frame]: the compressed frame of an interaction saved at
\* timestamp, or that an extractor raised before a frame was built
build_frame(raw_user_msg, raw_assistant_msg, timestamp) ==
    build_after(raw_user_msg, raw_assistant_msg, timestamp,
                _extract_project_state(raw_user_msg, raw_assistant_msg))

(***************************************************************************)
(* schema.py: RecapFrame.to_dict / from_dict and the nested value objects. *)
(* A JSON object is a function on its keys.                                *)
(***************************************************************************)
\* dataclasses.asdict of the four nested dataclasses
SemanticMemory_to_dict(x) == [concepts |-> x.concepts, notes |-> x.notes]
ProceduralMemory_to_dict(x) ==
    [workflows |-> x.workflows, checklists |-> x.checklists]
ProjectState_to_dict(x) ==
    [project_name |-> x.project_name, summary |-> x.summary,
     active_workstream |-> x.active_workstream,
     pending_tasks |-> x.pending_tasks, constraints |-> x.constraints]
Preferences_to_dict(x) ==
    [style |-> x.style, tone |-> x.tone, constraints |-> x.constraints,
     other |-> x.other]

\* a mutant of to_dict: the raw messages are left out of the stored record
to_dict_without_raw(frame) ==
    [timestamp |-> frame.timestamp,
     key_topics |-> frame.key_topics,
     distilled_user_intent |-> frame.distilled_user_intent,
     distilled_system_output |-> frame.distilled_system_output,
     tags |-> frame.tags,
     semantic |-> SemanticMemory_to_dict(frame.semantic),
     procedural |-> ProceduralMemory_to_dict(frame.procedural),
     project_state |-> ProjectState_to_dict(frame.project_state),
     preferences |-> Preferences_to_dict(frame.preferences)]

to_dict(frame) ==
    [timestamp |-> frame.timestamp,
     key_topics |-> frame.key_topics,
     distilled_user_intent |-> frame.distilled_user_intent,
     distilled_system_output |-> frame.distilled_system_output,
     tags |-> frame.tags,
     semantic |-> SemanticMemory_to_dict(frame.semantic),
     procedural |-> ProceduralMemory_to_dict(frame.procedural),
     project_state |-> ProjectState_to_dict(frame.project_state),
     preferences |-> Preferences_to_dict(frame.preferences),
     raw_user_message |-> frame.raw_user_message,
     raw_assistant_message |-> frame.raw_assistant_message]

\* data.get(key, default)
dict_get(data, key, default) ==
    IF key \in DOMAIN data THEN data[key] ELSE default

\* "if not data": None or the empty dict
IsEmptyDict(data) == DOMAIN data = {}

SemanticMemory_from_dict(data) ==
    IF IsEmptyDict(data) THEN [concepts |-> <<>>, notes |-> <<>>]
    ELSE [concepts |-> dict_get(data, "concepts", <<>>),
          notes |-> dict_get(data, "notes", <<>>)]
ProceduralMemory_from_dict(data) ==
    IF IsEmptyDict(data) THEN [workflows |-> <<>>, checklists |-> <<>>]
    ELSE [workflows |-> dict_get(data, "workflows", <<>>),
          checklists |-> dict_get(data, "checklists", <<>>)]
ProjectState_from_dict(data) ==
    IF IsEmptyDict(data)
    THEN [project_name |-> <<>>, summary |-> <<>>, active_workstream |-> <<>>,
          pending_tasks |-> <<>>, constraints |-> <<>>]
    ELSE [project_name |-> dict_get(data, "project_name", <<>>),
          summary |-> dict_get(data, "summary", <<>>),
          active_workstream |-> dict_get(data, "active_workstream", <<>>),
          pending_tasks |-> dict_get(data, "pending_tasks", <<>>),
          constraints |-> dict_get(data, "constraints", <<>>)]
Preferences_from_dict(data) ==
    IF IsEmptyDict(data)
    THEN [style |-> <<>>, tone |-> <<>>, constraints |-> <<>>, other |-> <<>>]
    ELSE [style |-> dict_get(data, "style", <<>>),
          tone |-> dict_get(data, "tone", <<>>),
          constraints |-> dict_get(data, "constraints", <<>>),
          other |-> dict_get(data, "other", <<>>)]

from_dict(data) ==
    [timestamp |-> dict_get(data, "timestamp", 0),
     key_topics |-> dict_get(data, "key_topics", <<>>),
     distilled_user_intent |-> dict_get(data, "distilled_user_intent", <<>>),
     distilled_system_output |-> dict_get(data, "distilled_system_output", <<>>),
     tags |-> dict_get(data, "tags", <<>>),
     semantic |-> SemanticMemory_from_dict(dict_get(data, "semantic", <<>>)),
     procedural |-> ProceduralMemory_from_dict(dict_get(data, "procedural", <<>>)),
     project_state |-> ProjectState_from_dict(dict_get(data, "project_state", <<>>)),
     preferences |-> Preferences_from_dict(dict_get(data, "preferences", <<>>)),
     raw_user_message |-> dict_get(data, "raw_user_message", <<>>),
     raw_assistant_message |-> dict_get(data, "raw_assistant_message", <<>>)]

(***************************************************************************)
(* storage.py: the JSONL log.  A line of the file is [parse, obj]: parse    *)
(* is what reading the line back gives: "object" when json.loads parses it *)
(* to a dict, which is obj; "value" when it parses to another JSON value   *)
(* (null, a number, a list); "JSONDecodeError" when the line is text that  *)
(* json.loads rejects; "UnicodeDecodeError" when its bytes are not UTF-8.  *)
(***************************************************************************)
MAX_FRAMES == 300

\* json.dumps(d, sort_keys=True) + "\n"
json_dumps(d) == [parse |-> "object", obj |-> d]

\* json.loads(line) does not raise JSONDecodeError
IsJson(line) == line.parse \in {"object", "value"}

\* whether load_all() raises: the file is opened with encoding="utf-8", so
\* iterating it raises UnicodeDecodeError on bytes that are not UTF-8; and
\* RecapFrame.from_dict(data) raises AttributeError on a value without .get.
\* Only json.JSONDecodeError is caught.
load_all_raises(lines) ==
    \E i \in 1..Len(lines) : lines[i].parse \in {"UnicodeDecodeError", "value"}

\* what load_all() returns when it does not raise: a line json.loads cannot
\* parse is skipped
load_all(lines) ==
    LET parsed == SelectSeq(lines, IsJson)
    IN [i \in 1..Len(parsed) |-> from_dict(parsed[i].obj)]

\* values[-n:] of a list, n > 0
last_n(values, n) ==
    SubSeq(values, Len(values) - Min(n, Len(values)) + 1, Len(values))

\* a mutant of _prune_if_needed: the rewrite keeps the first MAX_FRAMES frames
prune_keep_oldest(lines) ==
    LET frames == load_all(lines)
    IN IF Len(frames) <= MAX_FRAMES THEN lines
       ELSE [i \in 1..MAX_FRAMES |-> json_dumps(to_dict(frames[i]))]

\* a mutant of _prune_if_needed: the rewrite drops the oldest frame only
prune_drop_oldest(lines) ==
    LET frames == load_all(lines)
    IN IF Len(frames) <= MAX_FRAMES THEN lines
       ELSE [i \in 1..(Len(frames) - 1) |-> json_dumps(to_dict(frames[i + 1]))]

\* the file after _prune_if_needed()
_prune_if_needed(lines) ==
    LET frames == load_all(lines)
    IN IF Len(frames) <= MAX_FRAMES THEN lines
       ELSE LET kept == last_n(frames, MAX_FRAMES)
            IN [i \in 1..Len(kept) |-> json_dumps(to_dict(kept[i]))]

\* the file after write_frame(frame)
write_frame(lines, frame) ==
    _prune_if_needed(Append(lines, json_dumps(to_dict(frame))))

(***************************************************************************)
(* retrieval.py                                                            *)
(***************************************************************************)
\* re.search(r"\b" + re.escape(tok) + r"\b", text) for a token of [a-z0-9_]+:
\* an occurrence with no word character right before or right after it
re_search_word(tok, t) ==
    \E i \in 1..(Len(t) - Len(tok) + 1) :
        /\ OccursAt(t, tok, i)
        /\ i = 1 \/ ~IsWordChar(t[i - 1])
        /\ i + Len(tok) > Len(t) \/ ~IsWordChar(t[i + Len(tok)])

\* the text a frame is matched against
haystack(frame) ==
    str_lower(str_join(SP, <<str_join(SP, frame.key_topics),
                             frame.distilled_user_intent,
                             frame.distilled_system_output,
                             frame.project_state.summary,
                             frame.raw_user_message>>))

match_count(query_tokens, frame) ==
    LET t == haystack(frame)
    IN Cardinality({k \in 1..Len(query_tokens) :
                       Len(query_tokens[k]) > 0 /\ re_search_word(query_tokens[k], t)})

\* max(total - 1, 1)
score_den(total) == IF total - 1 >= 1 THEN total - 1 ELSE 1

\* a mutant of _score_frame: no recency weight
score_without_recency(query_tokens, frame, index, total) ==
    IF Len(query_tokens) = 0 THEN score_den(total)
    ELSE match_count(query_tokens, frame) * score_den(total)

\* The score is a fraction over max(total - 1, 1), the same for every frame
\* of one retrieval: this is its numerator, so that scores compare as these
\* integers do.  recency_weight = 1.0 + index / max(total - 1, 1).
_score_frame(query_tokens, frame, index, total) ==
    IF Len(query_tokens) = 0 THEN score_den(total) + index
    ELSE LET n == match_count(query_tokens, frame)
         IN IF n = 0 THEN 0
            ELSE n * (score_den(total) + index)

\* a mutant of scored_less: the lowest score first
scored_less_ascending(x, y) ==
    x.score < y.score \/ (x.score = y.score /\ x.timestamp < y.timestamp)

\* the sort key (-sf[0], sf[1].timestamp): x sorts strictly before y
scored_less(x, y) ==
    x.score > y.score \/ (x.score = y.score /\ x.timestamp < y.timestamp)

\* the loop over enumerate(frames): the (score, frame) pairs kept, a frame
\* being named by its place idx (from 1) in load_all()
score_frames(query_tokens, frames) ==
    LET all == [i \in 1..Len(frames) |->
                   [score |-> _score_frame(query_tokens, frames[i], i - 1,
                                           Len(frames)),
                    idx |-> i,
                    timestamp |-> frames[i].timestamp]]
    IN SelectSeq(all, LAMBDA sf : ~(sf.score <= 0 /\ Len(query_tokens) > 0))

\* scored.sort(key)
sort_scored(scored) ==
    LET order == StableOrder(Len(scored),
                     [i \in 1..Len(scored) |-> [j \in 1..Len(scored) |->
                         scored_less(scored[i], scored[j])]])
    IN [k \in 1..Len(scored) |-> scored[order[k]]]

\* scored[:max_results], and of it the frames with s > 0 (all of them when
\* the query has no token)
top_places(scored, query_tokens, max_results) ==
    LET kept == SelectSeq(Take(scored, max_results),
                          LAMBDA sf : sf.score > 0 \/ Len(query_tokens) = 0)
    IN [i \in 1..Len(kept) |-> kept[i].idx]

\* retrieve_relevant_frames once load_all() and _tokenize(query) are done
rank_frames(frames, query_tokens, max_results) ==
    IF Len(frames) = 0 THEN <<>>
    ELSE top_places(sort_scored(score_frames(query_tokens, frames)),
                    query_tokens, max_results)

\* the places in load_all() of the frames returned, in the order returned
retrieve_relevant_frames(query, max_results, lines) ==
    rank_frames(load_all(lines),
                IF Len(query) > 0 THEN _tokenize(query) ELSE <<>>,
                max_results)

\* a mutant of fallback_places: the first max_frames frames of the store
fallback_oldest(total, max_frames) ==
    [i \in 1..Min(max_frames, total) |-> i]

\* all_frames[-max_frames:], as places in load_all()
fallback_places(total, max_frames) ==
    LET n == Min(max_frames, total)
    IN [i \in 1..n |-> total - n + i]

\* the loop "for frame in frames" of reconstruct_state
RECURSIVE aggregate(_, _, _)
aggregate(frames, i, acc) ==
    IF i > Len(frames) THEN acc
    ELSE LET frame == frames[i]
             ps == frame.project_state
         IN aggregate(frames, i + 1,
              [project_summary |-> IF Len(ps.summary) > 0 THEN ps.summary
                                   ELSE acc.project_summary,
               active_workstream |-> IF Len(ps.active_workstream) > 0
                                     THEN ps.active_workstream
                                     ELSE acc.active_workstream,
               pending_tasks |-> acc.pending_tasks \o ps.pending_tasks,
               constraints |-> acc.constraints \o ps.constraints,
               style |-> IF Len(frame.preferences.style) > 0
                         THEN frame.preferences.style ELSE acc.style,
               tone |-> IF Len(frame.preferences.tone) > 0
                        THEN frame.preferences.tone ELSE acc.tone,
               pref_constraints |-> acc.pref_constraints
                                    \o frame.preferences.constraints,
               other_prefs |-> frame.preferences.other @@ acc.other_prefs])

EmptyPreferences ==
    [style |-> <<>>, tone |-> <<>>, constraints |-> <<>>, other |-> <<>>]

\* "Build recommended next steps"
next_steps(pending_tasks, base) ==
    IF Len(pending_tasks) > 0 THEN Take(pending_tasks, 5)
    ELSE IF Len(base) > 0 THEN <<K_Continue \o base>>
    ELSE <<>>

\* the ContextBundle returned
bundle_of(frames, agg, project_summary, active_workstream) ==
    [project_summary |-> project_summary,
     active_workstream |-> active_workstream,
     user_prefs |-> [style |-> agg.style,
                     tone |-> agg.tone,
                     constraints |-> dedup_list(agg.pref_constraints),
                     other |-> agg.other_prefs],
     known_constraints |-> dedup_list(agg.constraints),
     recommended_next_steps |->
         next_steps(dedup_list(agg.pending_tasks),
                    IF Len(active_workstream) > 0 THEN active_workstream
                    ELSE project_summary),
     supporting_frames |-> frames]

\* the fallbacks of project_summary and active_workstream to the primary
\* frame
bundle_from(frames, primary, agg) ==
    bundle_of(frames, agg,
              IF Len(agg.project_summary) > 0 THEN agg.project_summary
              ELSE IF Len(primary.distilled_user_intent) > 0
                   THEN primary.distilled_user_intent
                   ELSE str_join(K_bar, primary.key_topics),
              IF Len(agg.active_workstream) > 0 THEN agg.active_workstream
              ELSE primary.project_state.active_workstream)

\* the bundle of the frames chosen: primary = frames[-1], then the loop
aggregate_frames(frames) ==
    IF Len(frames) = 0
    THEN [project_summary |-> <<>>,
          active_workstream |-> <<>>,
          user_prefs |-> EmptyPreferences,
          known_constraints |-> <<>>,
          recommended_next_steps |-> <<>>,
          supporting_frames |-> <<>>]
    ELSE bundle_from(frames, frames[Len(frames)],
                     aggregate(frames, 1,
                         [project_summary |-> <<>>, active_workstream |-> <<>>,
                          pending_tasks |-> <<>>, constraints |-> <<>>,
                          style |-> <<>>, tone |-> <<>>,
                          pref_constraints |-> <<>>, other_prefs |-> <<>>]))

\* "Fallback: use the last few frames if retrieval returned nothing"
select_places(retrieved, total, max_frames) ==
    IF Len(retrieved) = 0 THEN fallback_places(total, max_frames)
    ELSE retrieved

\* the frames at the places selected
frames_at(all_frames, selected) ==
    [i \in 1..Len(selected) |-> all_frames[selected[i]]]

reconstruct_selected(all_frames, selected) ==
    [bundle |-> aggregate_frames(frames_at(all_frames, selected)),
     selected |-> selected]

\* [bundle, selected]: the ContextBundle, and the places in load_all() of
\* its supporting_frames
reconstruct_state(query, max_frames, lines) ==
    reconstruct_selected(
        load_all(lines),
        select_places(retrieve_relevant_frames(query, max_frames, lines),
                      Len(load_all(lines)), max_frames))

(***************************************************************************)
(* The variables a specification does not use keep these values.           *)
(***************************************************************************)
StoreIdle ==
    /\ log = <<>>
    /\ now = 0
    /\ result = [kind |-> "none"]
    /\ written = <<>>
    /\ saves = 0
TextIdle ==
    /\ text = <<>>
    /\ budget = 0
    /\ out1 = <<>>
    /\ out2 = <<>>
    /\ cphase = "idle"
KwIdle ==
    /\ texts = <<>>
    /\ max_keywords = 0
    /\ kw = <<>>
    /\ kw_perm = <<>>
    /\ kphase = "idle"

\* every str of at most n characters of A
TextsUpTo(A, n) == UNION {[1..k -> A] : k \in 0..n}

(***************************************************************************)
(* SpecCompress: compress_text on every small text and budget, applied     *)
(* once and then again to its own output; and the two compressions a saved *)
(* frame's distilled_system_output goes through (_distill_output at 400,   *)
(* then compress_frame at 600).                                            *)
(***************************************************************************)
CompressAlphabet == {"a", "b", " ", "."}
T_UseCaching == <<"U", "s", "e", " ", "c", "a", "c", "h", "i", "n", "g", ".">>
T_UseCaching2 == T_UseCaching \o SP \o T_UseCaching
SampleTexts == {T_UseCaching2}

InitCompress ==
    /\ text \in TextsUpTo(CompressAlphabet, MaxLen) \cup SampleTexts
    /\ budget \in 0..MaxBudget
    /\ out1 = <<>>
    /\ out2 = <<>>
    /\ cphase = "in"
    /\ StoreIdle
    /\ KwIdle

Compress ==
    /\ cphase = "in"
    /\ out1' = compress_text(text, budget)
    /\ cphase' = "once"
    /\ UNCHANGED <<text, budget, out2>>
    /\ UNCHANGED storeVars
    /\ UNCHANGED kwVars

Recompress ==
    /\ cphase = "once"
    /\ out2' = compress_text(out1, budget)
    /\ cphase' = "twice"
    /\ UNCHANGED <<text, budget, out1>>
    /\ UNCHANGED storeVars
    /\ UNCHANGED kwVars

\* save_context: distilled_output = _distill_output(raw_assistant_msg), then
\* compress_frame: compress_text(frame.distilled_system_output, 600)
Distill ==
    /\ cphase = "in"
    /\ out1' = _distill_output(text)
    /\ out2' = compress_text(_distill_output(text), 600)
    /\ cphase' = "distilled"
    /\ UNCHANGED <<text, budget>>
    /\ UNCHANGED storeVars
    /\ UNCHANGED kwVars

NextCompress == Compress \/ Recompress \/ Distill
SpecCompress == InitCompress /\ [][NextCompress]_vars

(***************************************************************************)
(* SpecKeywords: extract_keywords on every small list of texts, and on a   *)
(* permutation of the list.                                                *)
(***************************************************************************)
KwAlphabet == {"a", "b", "B", " "}
KwSeparator == "|"

\* the texts of a list written as one str, KwSeparator between them
split_list(flat) == Pieces(flat, {KwSeparator})

KwInputs ==
    {ts \in {split_list(flat) :
                flat \in TextsUpTo(KwAlphabet \cup {KwSeparator}, MaxKwChars)} :
        Len(ts) <= MaxTexts}

Perms(n) == {p \in [1..n -> 1..n] : \A i, j \in 1..n : i # j => p[i] # p[j]}

InitKeywords ==
    /\ texts \in KwInputs
    /\ max_keywords \in 0..MaxKeywords
    /\ kw = <<>>
    /\ kw_perm = <<>>
    /\ kphase = "in"
    /\ StoreIdle
    /\ TextIdle

Extract ==
    /\ kphase = "in"
    /\ kw' = extract_keywords(texts, max_keywords)
    /\ kphase' = "out"
    /\ UNCHANGED <<texts, max_keywords, kw_perm>>
    /\ UNCHANGED storeVars
    /\ UNCHANGED textVars

ExtractPermuted ==
    /\ kphase = "out"
    /\ \E p \in Perms(Len(texts)) :
          kw_perm' = extract_keywords([i \in 1..Len(texts) |-> texts[p[i]]],
                                      max_keywords)
    /\ kphase' = "perm"
    /\ UNCHANGED <<texts, max_keywords, kw>>
    /\ UNCHANGED storeVars
    /\ UNCHANGED textVars

NextKeywords == Extract \/ ExtractPermuted
SpecKeywords == InitKeywords /\ [][NextKeywords]_vars

(***************************************************************************)
(* Spec: the API of api.py on the store.  The log starts as earlier runs   *)
(* left it: empty, or holding SmallBacklog or LargeBacklog frames, saved   *)
(* one a second before this run started (at time 0).                       *)
(***************************************************************************)
U_backup ==
    <<"p", "l", "a", "n", " ", "d", "a", "t", "a", " ", "b", "a", "c", "k",
      "u", "p", ".", " ", "b", "e", " ", "c", "o", "n", "c", "i", "s", "e">>
U_orion ==
    <<"p", "r", "o", "j", "e", "c", "t", ":", " ", "O", "r", "i", "o", "n",
      "\n", "c", "u", "r", "r", "e", "n", "t", "l", "y", " ", "m", "i", "g",
      "r", "a", "t", "i", "n", "g", " ", "t", "h", "e", " ", "d", "a", "t",
      "a", "b", "a", "s", "e">>
A_formal ==
    <<"b", "e", " ", "f", "o", "r", "m", "a", "l", " ", "a", "n", "d", " ",
      "d", "e", "t", "a", "i", "l", "e", "d", ".">>
U_Project ==
    <<"P", "r", "o", "j", "e", "c", "t", ":", " ", "O", "r", "i", "o", "n">>
U_PROJECT_NAME ==
    <<"P", "R", "O", "J", "E", "C", "T", " ", "N", "A", "M", "E", ":", " ",
      "x">>
A_ok == <<"o", "k">>
Q_data == <<"d", "a", "t", "a">>
Q_database == <<"d", "a", "t", "a", "b", "a", "s", "e">>
Q_three ==
    <<"d", "a", "t", "a", " ", "d", "a", "t", "a", "b", "a", "s", "e", " ",
      "o", "r", "i", "o", "n">>
Q_zzz == <<"z", "z", "z">>
Q_mark == <<"?">>
U_hello == <<"h", "e", "l", "l", "o", " ", "t", "h", "e", "r", "e">>
SampleInteractions ==
    <<[user |-> U_backup, assistant |-> T_UseCaching2],
      [user |-> U_orion, assistant |-> A_formal],
      [user |-> U_hello, assistant |-> A_ok],
      [user |-> U_Project, assistant |-> A_ok],
      [user |-> U_PROJECT_NAME, assistant |-> A_ok]>>
Interactions == Range(SampleInteractions)
Queries == {<<>>, Q_data, Q_database, Q_three, Q_zzz, Q_mark}

\* the interaction of the i-th save of the earlier runs
BacklogInteraction(i) == SampleInteractions[IF i % 2 = 1 THEN 2 ELSE 1]

\* the frames the earlier runs saved, k of them
prior_written(k) ==
    [i \in 1..k |->
        build_frame(BacklogInteraction(i).user, BacklogInteraction(i).assistant,
                    i - k - 1).frame]
\* the log they left: a line a frame, as write_frame appends them; the
\* backlogs are not longer than MAX_FRAMES, so no save of theirs pruned a
\* line
prior_log(frames) ==
    [i \in 1..Len(frames) |-> json_dumps(to_dict(frames[i]))]

Init ==
    /\ \E k \in {0, SmallBacklog, LargeBacklog} :
          \E frames \in {prior_written(k)} :
              /\ log = prior_log(frames)
              /\ written = frames
    /\ now = 0
    /\ result = [kind |-> "none"]
    /\ saves = 0
    /\ TextIdle
    /\ KwIdle

\* save_context(x.user, x.assistant) at time now.  saves counts the frames
\* saved; the save after one that wrote a frame comes a second later.  When
\* load_all raises in _prune_if_needed, the line has been appended already.
Save(x) ==
    \E built \in {build_frame(x.user, x.assistant, now)} :
       /\ IF built.raised
          THEN /\ result' = [kind |-> "raised", exc |-> "IndexError"]
               /\ UNCHANGED <<log, written, saves, now>>
          ELSE /\ IF load_all_raises(log)
                  THEN /\ result' = [kind |-> "load_failed", op |-> "write_frame"]
                       /\ log' = Append(log, json_dumps(to_dict(built.frame)))
                  ELSE /\ result' = [kind |-> "frame", frame |-> built.frame]
                       /\ log' = write_frame(log, built.frame)
               /\ written' = Append(written, built.frame)
               /\ saves' = saves + 1
               /\ now' = now + 1
       /\ UNCHANGED textVars
       /\ UNCHANGED kwVars

SaveContext ==
    /\ saves < MaxSaves
    /\ \E x \in Interactions : Save(x)

\* [kind, op, query, max_frames, bundle, selected]
Reconstructed(op, query, max_frames, r) ==
    [kind |-> "bundle", op |-> op, query |-> query,
     max_frames |-> max_frames, bundle |-> r.bundle,
     selected |-> r.selected]

LoadContext ==
    /\ \E query \in Queries : result' = Reconstructed("load_context", query, 12,
                                      reconstruct_state(query, 12, log))
    /\ UNCHANGED <<log, now, written, saves>>
    /\ UNCHANGED textVars
    /\ UNCHANGED kwVars

Summarize ==
    /\ result' = Reconstructed("summarize", <<>>, 20,
                               reconstruct_state(<<>>, 20, log))
    /\ UNCHANGED <<log, now, written, saves>>
    /\ UNCHANGED textVars
    /\ UNCHANGED kwVars

Next == SaveContext \/ LoadContext \/ Summarize
Spec == Init /\ [][Next]_vars

(***************************************************************************)
(* SpecRetention: one long run on an empty store, a save a second, the     *)
(* interactions alternating, and load_all() read back at any time.         *)
(***************************************************************************)
InitRetention ==
    /\ log = <<>>
    /\ written = <<>>
    /\ now = 0
    /\ result = [kind |-> "none"]
    /\ saves = 0
    /\ TextIdle
    /\ KwIdle

AppendNext ==
    /\ saves < MaxAppends
    /\ Save(BacklogInteraction(saves + 1))

ReadAll ==
    /\ result' = IF load_all_raises(log)
                 THEN [kind |-> "load_failed", op |-> "load_all"]
                 ELSE [kind |-> "frames", frames |-> load_all(log)]
    /\ UNCHANGED <<log, now, written, saves>>
    /\ UNCHANGED textVars
    /\ UNCHANGED kwVars

NextRetention == AppendNext \/ ReadAll
SpecRetention == InitRetention /\ [][NextRetention]_vars

(***************************************************************************)
(* SpecDamage: a short run on an empty store whose file is damaged from    *)
(* outside between the calls: a line of it is replaced by text that is not *)
(* JSON, by bytes that are not UTF-8, or by a JSON value that is no object.*)
(***************************************************************************)
NotJsonLine == [parse |-> "JSONDecodeError", obj |-> <<>>]
NotUtf8Line == [parse |-> "UnicodeDecodeError", obj |-> <<>>]
NotObjectLine == [parse |-> "value", obj |-> <<>>]
DamagedLines == {NotJsonLine, NotUtf8Line, NotObjectLine}

\* the lines of the file that are damaged
Damaged(lines) == {i \in 1..Len(lines) : lines[i].parse # "object"}

AppendFew ==
    /\ saves < MaxDamageSaves
    /\ Save(BacklogInteraction(saves + 1))

Damage ==
    /\ Cardinality(Damaged(log)) < MaxDamaged
    /\ \E i \in 1..Len(log) : \E d \in DamagedLines :
          /\ i \notin Damaged(log)
          /\ log' = [log EXCEPT ![i] = d]
    /\ UNCHANGED <<now, result, written, saves>>
    /\ UNCHANGED textVars
    /\ UNCHANGED kwVars

NextDamage == AppendFew \/ Damage \/ ReadAll
SpecDamage == InitRetention /\ [][NextDamage]_vars

(***************************************************************************)
(* SpecCrash: write_frame on a store that earlier runs left full or one    *)
(* line short of full, where the process may stop between the append       *)
(* (storage.py:31-32) and _prune_if_needed() (storage.py:34).  The file    *)
(* outlives the process; the next call is made by a new process.           *)
(***************************************************************************)
InitCrash ==
    /\ \E k \in {MAX_FRAMES - 1, MAX_FRAMES} :
          \E frames \in {prior_written(k)} :
              /\ log = prior_log(frames)
              /\ written = frames
    /\ now = 0
    /\ result = [kind |-> "none"]
    /\ saves = 0
    /\ TextIdle
    /\ KwIdle

\* write_frame(frame), run to completion or stopped before _prune_if_needed;
\* result tells which, and how many lines the file had when it was called
WriteFrame(frame, completes) ==
    /\ log' = IF completes THEN write_frame(log, frame)
              ELSE Append(log, json_dumps(to_dict(frame)))
    /\ result' = [kind |-> IF completes THEN "written" ELSE "crashed",
                  lines_before |-> Len(log)]
    /\ written' = Append(written, frame)
    /\ saves' = saves + 1
    /\ now' = now + 1
    /\ UNCHANGED textVars
    /\ UNCHANGED kwVars

\* the frames save_context may hand to write_frame next: that of either of
\* the two interactions of the earlier runs
NextFrames ==
    {build_frame(BacklogInteraction(i).user, BacklogInteraction(i).assistant,
                 now).frame : i \in 1..2}

AppendCompleted ==
    /\ saves < MaxCrashWrites
    /\ \E frame \in NextFrames : WriteFrame(frame, TRUE)

AppendCrashed ==
    /\ saves < MaxCrashWrites
    /\ Len(log) < MAX_FRAMES + MaxOverCap
    /\ \E frame \in NextFrames : WriteFrame(frame, FALSE)

NextCrash == AppendCompleted \/ AppendCrashed \/ ReadAll
SpecCrash == InitCrash /\ [][NextCrash]_vars

(***************************************************************************)
(* The store and the bundles.  In Spec and SpecRetention, written is the   *)
(* frames save_context returned, in the order they were written; a place   *)
(* is an index of it.                                                      *)
(***************************************************************************)
\* C1: after n appends to an empty store, load_all returns min(n, 300)
\* frames: the min(n, 300) most recently appended, in the order written.
C1_Retention ==
    LET n == Len(written)
        kept == Min(n, MAX_FRAMES)
    IN /\ load_all(log) = SubSeq(written, n - kept + 1, n)
       /\ Len(load_all(log)) = kept
       /\ result.kind = "frames" =>
              /\ Len(result.frames) = kept
              /\ \A i \in 1..kept : result.frames[i] = written[n - kept + i]

\* C1 witness: more than 300 frames have been appended (305 at the end) and
\* load_all has been read after that.
C1_Witness ==
    /\ Len(written) > MAX_FRAMES
    /\ result.kind = "frames"
    /\ Len(result.frames) = MAX_FRAMES
    /\ result.frames[1] = written[Len(written) - MAX_FRAMES + 1]

\* the value the claim gives a single-valued field: that of the most
\* recently saved of the frames at places that has it non-empty, values
\* being the field of every frame of the store
LatestWins(places, values, value) ==
    LET having == {p \in places : Len(values[p]) > 0}
    IN having # {} => value = values[SetMax(having)]
SummaryOf == [p \in 1..Len(written) |-> written[p].project_state.summary]
WorkstreamOf ==
    [p \in 1..Len(written) |-> written[p].project_state.active_workstream]
StyleOf == [p \in 1..Len(written) |-> written[p].preferences.style]
ToneOf == [p \in 1..Len(written) |-> written[p].preferences.tone]

\* C2 (does not hold of the code): every single-valued field of a bundle
\* (project_summary, active_workstream, user_prefs.style, user_prefs.tone) is
\* the value of the most recently saved contributing frame that has it
\* non-empty.
C2_LatestWins ==
    result.kind = "bundle" =>
        LET places == Range(result.selected)
            bundle == result.bundle
        IN /\ LatestWins(places, SummaryOf, bundle.project_summary)
           /\ LatestWins(places, WorkstreamOf, bundle.active_workstream)
           /\ LatestWins(places, StyleOf, bundle.user_prefs.style)
           /\ LatestWins(places, ToneOf, bundle.user_prefs.tone)

\* C3 (does not hold of the code): supporting_frames lists the contributing
\* frames oldest first: of two of them, the one written earlier stands
\* earlier in the list.
C3_OldestFirst ==
    result.kind = "bundle" =>
        /\ result.bundle.supporting_frames
               = [i \in 1..Len(result.selected) |-> written[result.selected[i]]]
        /\ \A i, j \in 1..Len(result.selected) :
               i < j => result.selected[i] < result.selected[j]

\* C4 (does not hold of the code): save_context never raises, whatever the
\* two texts: it returns a frame and appends it to the store.
C4_SaveNeverRaises == result.kind # "raised"

\* the words of the haystack of a frame
WordsOf(frame) == Range(_tokenize(haystack(frame)))
\* the number of tokens of a query that occur as a whole word of the
\* haystack of a frame
MatchN(query_tokens, frame) ==
    LET words == WordsOf(frame)
    IN Cardinality({k \in 1..Len(query_tokens) : query_tokens[k] \in words})
\* that number for the frame at each place of the store, as a sequence
MatchCounts(query) ==
    LET query_tokens == _tokenize(query)
    IN [p \in 1..Len(written) |-> MatchN(query_tokens, written[p])] \o <<>>
\* the places of the frames that match
MatchingPlaces(counts) == {p \in 1..Len(counts) : counts[p] > 0}
\* the places of the n most recent frames of the store, oldest first
MostRecent(n) ==
    [i \in 1..Min(n, Len(written)) |->
        Len(written) - Min(n, Len(written)) + i]

\* C5: when the store is not empty and a query with a token matches no
\* frame, the bundle is built from the min(total, max_frames) most recent
\* frames of the store, and supporting_frames is not empty.
C5_ZeroMatchFallback ==
    (/\ result.kind = "bundle"
     /\ Len(written) > 0
     /\ Len(_tokenize(result.query)) > 0
     /\ MatchingPlaces(MatchCounts(result.query)) = {}) =>
        /\ result.selected = MostRecent(result.max_frames)
        /\ result.bundle.supporting_frames
               = last_n(written, result.max_frames)
        /\ Len(result.bundle.supporting_frames) > 0

\* C5 witness: load_context("zzz") on a store of more than 12 frames, none
\* of which holds the word.
C5_Witness ==
    /\ result.kind = "bundle"
    /\ result.query = Q_zzz
    /\ MatchingPlaces(MatchCounts(result.query)) = {}
    /\ Len(written) > result.max_frames
    /\ Len(result.selected) = result.max_frames

\* matchCount * (1 + index / (total - 1)), times total - 1 (1 for a store of
\* one frame), for the frame at place p
ClaimScore(counts, p) ==
    counts[p] * ((IF Len(counts) > 1 THEN Len(counts) - 1 ELSE 1) + (p - 1))
\* the frame at p ranks strictly above the one at q: a higher score, or the
\* same score and an earlier timestamp
RanksAbove(counts, p, q) ==
    \/ ClaimScore(counts, p) > ClaimScore(counts, q)
    \/ /\ ClaimScore(counts, p) = ClaimScore(counts, q)
       /\ written[p].timestamp < written[q].timestamp

C6_WitnessAt(counts) ==
    /\ Cardinality(MatchingPlaces(counts)) > result.max_frames
    /\ \E p \in 1..Len(counts) : counts[p] = 0
    /\ \E i, j \in 1..Len(result.selected) :
           counts[result.selected[i]] # counts[result.selected[j]]
    /\ \E i, j \in 1..Len(result.selected) :
           /\ i < j
           /\ ClaimScore(counts, result.selected[i])
                  = ClaimScore(counts, result.selected[j])
    /\ \E p \in MatchingPlaces(counts) : p \notin Range(result.selected)

C7_EmptyQueryRecency ==
    (result.kind = "bundle" /\ result.query = <<>>) =>
        /\ result.op = "load_context" => result.max_frames = 12
        /\ result.op = "summarize" => result.max_frames = 20
        /\ Len(result.selected) = Min(result.max_frames, Len(written))
        /\ Range(result.selected) = Range(MostRecent(result.max_frames))

\* C7 witness: summarize() on a store of more than 20 frames.
C7_Witness ==
    /\ result.kind = "bundle"
    /\ result.op = "summarize"
    /\ result.query = <<>>
    /\ Len(written) > result.max_frames
    /\ Len(result.selected) = result.max_frames
    /\ Len(written) \in Range(result.selected)

(***************************************************************************)
(* compress_text and extract_keywords                                      *)
(***************************************************************************)

\* the sentences of a compressed text, as compress_text segments it
SentencesOf(t) == split_sentences(t)
\* the cleaned input of compress_text
Cleaned(t) == str_join(SP, str_split(strip(t)))
\* s without the entries that repeat an earlier one
FirstOccurrences(s) ==
    LET keep == {i \in 1..Len(s) : \A j \in 1..(i - 1) : s[j] # s[i]}
        F[i \in 0..Len(s)] ==
            IF i = 0 THEN <<>>
            ELSE IF i \in keep THEN Append(F[i - 1], s[i]) ELSE F[i - 1]
    IN F[Len(s)]
NoRepeat(s) == \A i, j \in 1..Len(s) : i # j => s[i] # s[j]
IsPrefix(p, s) == Len(p) <= Len(s) /\ \A i \in 1..Len(p) : p[i] = s[i]
\* the number of places of t where sub occurs
Occurrences(t, sub) == Cardinality({i \in 1..Len(t) : OccursAt(t, sub, i)})

\* C8: compress_text is idempotent: compressing the output of
\* compress_text(text, budget) again with the same budget gives it back.
C8_Idempotent == cphase = "twice" => out2 = out1

\* C8 witness: the first call truncated (its output is shorter than the
\* deduplicated text) to a non-empty output, and the second call has run.
C8_Witness ==
    /\ cphase = "twice"
    /\ Len(out1) > 0
    /\ Len(out1) < Len(compress_text(text, 600))
    /\ " " \in Range(out1)

\* C9: the output of compress_text(text, budget) is at most budget characters
\* long and holds no sentence twice; when nothing was cut, its sentences are
\* the input's in first-occurrence order, and otherwise a prefix of that
\* text. The stored distilled_system_output of an assistant text that says
\* "Use caching." twice holds that sentence exactly once.
C9_BoundedNoRepeat ==
    /\ cphase \in {"once", "twice"} =>
          /\ Len(out1) <= budget
          /\ NoRepeat(SentencesOf(out1))
          /\ LET full == str_join(SP, FirstOccurrences(SentencesOf(Cleaned(text))))
             IN /\ IsPrefix(out1, full)
                /\ Len(full) <= budget => out1 = full
    /\ cphase = "distilled" =>
          /\ Len(out2) <= 600
          /\ NoRepeat(SentencesOf(out2))
          /\ Occurrences(text, T_UseCaching) = 2 =>
                Occurrences(out2, T_UseCaching) = 1

\* C9 witness: the text with "Use caching." twice has been distilled, and a
\* small text with a repeated sentence has been compressed.
C9_Witness ==
    \/ /\ cphase = "distilled"
       /\ text = T_UseCaching2
       /\ out2 = T_UseCaching
    \/ /\ cphase = "once"
       /\ ~NoRepeat(SentencesOf(Cleaned(text)))
       /\ Len(out1) > 0

\* the joined deduplicated text r of compress_text(text, budget)
JoinedUnique == str_join(SP, FirstOccurrences(SentencesOf(Cleaned(text))))
\* the 0-based indices up to hi at which r holds a space
SpacesUpTo(r, hi) == {i \in 0..Min(hi, Len(r) - 1) : r[i + 1] = " "}
\* r[0..cut) without its trailing spaces
CutAt(r, cut) ==
    Take(r, SetMax({n \in 0..cut : n = 0 \/ r[n] # " "}))
\* r cut at its last space of index at most hi, the hard cut at max_chars
\* if there is none
CutAtLastSpace(r, hi, max_chars) ==
    IF SpacesUpTo(r, hi) = {} THEN Take(r, max_chars)
    ELSE CutAt(r, SetMax(SpacesUpTo(r, hi)))

\* C13 as stated: when the joined deduplicated text r is longer than budget,
\* the output of compress_text is r cut at the last space whose index is at
\* or before budget, trailing space trimmed (r[0..budget) when r[budget] is
\* a space), and the hard cut r[0..budget) if there is no such space.
C13_CutAtOrBefore ==
    (cphase \in {"once", "twice"} /\ Len(JoinedUnique) > budget) =>
        out1 = CutAtLastSpace(JoinedUnique, budget, budget)

\* C13 corrected: when the joined deduplicated text r is longer than budget,
\* the output of compress_text is r cut at the last space whose index is
\* strictly below budget, trailing space trimmed, and the hard cut
\* r[0..budget) if there is no space below budget; a space at index budget
\* itself is never the place of the cut.
C13_CutBefore ==
    (cphase \in {"once", "twice"} /\ Len(JoinedUnique) > budget) =>
        out1 = CutAtLastSpace(JoinedUnique, budget - 1, budget)

\* C13 witness: compress_text has cut a text whose character at index budget
\* is a space and which holds an earlier space too, so the output ends
\* before the earlier space and is shorter than r[0..budget).
C13_Witness ==
    /\ cphase = "once"
    /\ Len(JoinedUnique) > budget
    /\ JoinedUnique[budget + 1] = " "
    /\ SpacesUpTo(JoinedUnique, budget - 1) # {}
    /\ Len(out1) < budget

\* the tokens of all the texts that are no stopword
KwCandidates == {tok \in UNION {Range(_tokenize(texts[k])) : k \in 1..Len(texts)} :
                    tok \notin _STOPWORDS}
\* how often tok occurs in all the texts together
KwFreq(tok) ==
    Cardinality({ki \in UNION {{<<k, i>> : i \in 1..Len(_tokenize(texts[k]))} :
                                  k \in 1..Len(texts)} :
                    _tokenize(texts[ki[1]])[ki[2]] = tok})
\* the total order: frequency descending, then token ascending
KwBefore(s, t) ==
    KwFreq(s) > KwFreq(t) \/ (KwFreq(s) = KwFreq(t) /\ str_lt(s, t))

FrameOfLine(line) == from_dict(line.obj)
\* whether frames is a run of consecutive frames of written, in its order
IsRunOfWritten(frames) ==
    \E d \in 0..(Len(written) - Len(frames)) :
        \A i \in 1..Len(frames) : frames[i] = written[d + i]

\* C12: after any sequence of appends, pruning rewrites included, every
\* line of the log is a record that deserialises field by field to the frame
\* as it was appended, the lines being the last appended frames in write
\* order (pruning removes whole frames from the front only); serialising and
\* deserialising any appended frame gives the frame back; and what
\* load_all returned is a run of consecutive appended frames, unchanged.
C12_StoredFramesImmutable ==
    /\ Len(log) <= Len(written)
    /\ \A i \in 1..Len(log) :
          /\ log[i].parse = "object"
          /\ FrameOfLine(log[i]) = written[Len(written) - Len(log) + i]
    /\ \A i \in 1..Len(written) :
          FrameOfLine(json_dumps(to_dict(written[i]))) = written[i]
    /\ result.kind = "frames" => IsRunOfWritten(result.frames)

\* C12 witness: the log has been rewritten by pruning more than once, its
\* first line is a rewritten record of a frame with a project name, pending
\* tasks and raw messages, and load_all has returned the frames since.
C12_Witness ==
    /\ Len(written) > MAX_FRAMES + 1
    /\ Len(log) = MAX_FRAMES
    /\ Len(FrameOfLine(log[1]).project_state.project_name) > 0
    /\ Len(FrameOfLine(log[1]).raw_user_message) > 0
    /\ Len(FrameOfLine(log[1]).key_topics) > 0
    /\ result.kind = "frames"
    /\ Len(result.frames) = MAX_FRAMES
    /\ result.frames[MAX_FRAMES] = written[Len(written)]

(***************************************************************************)
(* Damaged logs                                                            *)
(***************************************************************************)
\* the frames of the lines of the log that are not damaged, in file order;
\* in SpecDamage nothing is pruned, so line i holds written[i]
IntactFrames ==
    LET at == SortedSeq({i \in 1..Len(log) : i \notin Damaged(log)})
    IN [k \in 1..Len(at) |-> written[at[k]]]

\* whether every damaged line of the log is one that fails to parse as JSON
OnlyUnparsable ==
    \A i \in Damaged(log) :
        log[i].parse \in {"JSONDecodeError", "UnicodeDecodeError"}

\* C11 (does not hold of the code): on a log whose damaged lines are lines
\* that fail to parse as JSON, load_all does not raise and returns the frames
\* of all the other lines in file order, and no write_frame or load_all
\* call has failed.
C11_CorruptionTolerated ==
    OnlyUnparsable =>
        /\ result.kind # "load_failed"
        /\ ~load_all_raises(log) => load_all(log) = IntactFrames

(***************************************************************************)
(* A crash between the append and the pruning rewrite                      *)
(***************************************************************************)
\* the n most recently appended frames, in write order
LastWritten(n) ==
    [i \in 1..Min(n, Len(written)) |->
        written[Len(written) - Min(n, Len(written)) + i]]

\* C14: when write_frame stops after the append and before the pruning
\* rewrite, the log may hold more than 300 lines, but every line is a valid
\* record and load_all reads them all, the most recently appended frames in
\* write order; and after the next write_frame that runs to completion the
\* log holds exactly the 300 most recently appended frames in write order.
C14_CrashRecoverable ==
    /\ \A i \in 1..Len(log) : log[i].parse = "object"
    /\ ~load_all_raises(log)
    /\ load_all(log) = LastWritten(Len(log))
    /\ result.kind = "crashed" =>
          /\ Len(log) = result.lines_before + 1
          /\ result.lines_before >= MAX_FRAMES => Len(load_all(log)) > MAX_FRAMES
    /\ result.kind = "written" =>
          /\ Len(log) = Min(result.lines_before + 1, MAX_FRAMES)
          /\ load_all(log) = LastWritten(MAX_FRAMES)

\* C14 witness: a write_frame has run to completion on a log that crashed
\* calls had left with more than 300 lines, and the log holds 300 lines.
C14_Witness ==
    /\ result.kind = "written"
    /\ result.lines_before > MAX_FRAMES
    /\ Len(log) = MAX_FRAMES
    /\ Len(written) > MAX_FRAMES + 1

====
